---- MODULE Spec2Model ----
(***************************************************************************)
(* The Concierge: WebSocket session manager and group/namespace registry.  *)
(* State: the three registry tables (namespace, clients, groups), the      *)
(* per-client mailboxes, the registry guards that are held across an       *)
(* await, and the position of every session (connection) in its handler.   *)
(* One action per step of a handler between two suspension points.         *)
(***************************************************************************)
EXTENDS Integers, Sequences, FiniteSets, TLC

\* ------------------------------------------------------------------ bounds
\* Requests served in total, over all sessions (caps the seq counters).
MaxReq == 5

\* ----------------------------------------------------------- value spaces
\* One session per accepted socket, numbered in the order in which their
\* first frames arrive.  Uuid::new_v4() is fresh for every registration, so
\* the uuid of a session is the session's own number.
Sessions == {1, 2, 3}
Names == {"alice", "bob"}
GroupNames == {"chat", "dev"}
DataValues == {"d1"}

\* Uuid::nil(): the value no registered client has.
NoUuid == 0
\* seq: None on broadcast status payloads.
NoSeq == -1
NoName == "-"
NoGroup == "-"
NoData == "-"
\* Option<&str>::None for the IDENTIFY secret and for crate::SECRET.
NoSecret == "none"
\* A version string that semver's Version::parse rejects.
Unparsable == <<>>

\* crate::VERSION = "0.2.0" as <<major, minor, patch>>.
VERSION == <<0, 2, 0>>
\* crate::SECRET = None.
SECRET == NoSecret

\* Close codes of concierge_api_rs::close_codes, by name.
BAD_SECRET == "BAD_SECRET"
BAD_VERSION == "BAD_VERSION"
NO_AUTH == "NO_AUTH"
FATAL_DECODE == "FATAL_DECODE"
AUTH_FAILED == "AUTH_FAILED"
DUPLICATE_AUTH == "DUPLICATE_AUTH"
\* No close frame was sent: the connection task panicked.
PANICKED == "PANICKED"
NoCode == "-"

Versions == {<<0, 2, 0>>, <<0, 2, 1>>, <<0, 3, 0>>, <<1, 2, 0>>, Unparsable}
Secrets == {NoSecret, "right"}

\* The file endpoint: the paths below ./fs/<name>/ that requests name, a file
\* directly in the owner's directory and a file in a subdirectory of it.
Tails == {"d", "d/f"}
Paths == Names \X Tails
NoEntry == "none"
IsFile == "file"
IsDir == "dir"

\* FsError and the StatusCodes of the handlers that succeed.
BadAuthorization == "BadAuthorization"
Forbidden == "Forbidden"
FileNotFound == "FileNotFound"
NotAFile == "NotAFile"
Unknown == "Unknown"
ACCEPTED == "ACCEPTED"
CREATED == "CREATED"
OK == "OK"

NoResponse == [op |-> "-", auth |-> NoUuid, name |-> NoName, tail |-> "-", result |-> "-"]

\* What socket.next() can yield within the 5 second deadline.
\*   none     : timeout, end of stream or a socket error
\*   garbage  : a binary frame, or text that is no JSON payload
\*   other    : a well-formed payload that is not IDENTIFY
\*   identify : IDENTIFY {name, version, secret}
NoFrame == [kind |-> "none", name |-> NoName, version |-> Unparsable, secret |-> NoSecret]
FirstFrames ==
    {[kind |-> k, name |-> NoName, version |-> Unparsable, secret |-> NoSecret] :
        k \in {"none", "garbage", "other"}}
    \cup [kind : {"identify"}, name : Names, version : Versions, secret : Secrets]

VARIABLES
    namespace,  \* Concierge.namespace : name -> uuid
    clients,    \* Concierge.clients   : uuid -> [name, groups]
    groups,     \* Concierge.groups    : group name -> [owner, clients]
    mailbox,    \* per session: every frame sent into the client's channel, in order
    nsWriter,   \* the session holding namespace.write() across an await, or NoUuid
    clReaders,  \* the sessions holding a clients.read() guard across an await
    pc,         \* per session: where its connection task stands
    first,      \* per session: the first frame, while handle_identification runs
    name,       \* per session: the name returned by handle_identification
    closeCode,  \* per session: the close code its socket was closed with
    seq,        \* per session: the seq counter of handle_incoming_messages
    pending,    \* per session: the NAME-targeted MESSAGE waiting for namespace.read()
    rejectedBy, \* per session: the uuid that held its name when make_client refused it
    outgoing,   \* per session: the frames its dispatcher has written to the socket
    files,      \* the tree under ./fs: per path, nothing, a file or a directory
    response    \* the file endpoint's answer to the latest request

vars == <<namespace, clients, groups, mailbox, nsWriter, clReaders, pc, first,
          name, closeCode, seq, pending, rejectedBy, outgoing, files, response>>

\* ------------------------------------------------------- map primitives
contains_key(map, k) == k \in DOMAIN map

insert(map, k, v) == [x \in DOMAIN map \cup {k} |-> IF x = k THEN v ELSE map[x]]

remove(map, k) == [x \in DOMAIN map \ {k} |-> map[x]]

EmptyMap == [x \in {} |-> NoUuid]

\* ----------------------------------------------------------------- frames
Frame(type, sq, uuid, nm, group, gs, data) ==
    [type |-> type, seq |-> sq, uuid |-> uuid, name |-> nm, group |-> group,
     groups |-> gs, data |-> data]

Hello(uuid) == Frame("HELLO", NoSeq, uuid, NoName, NoGroup, {}, NoData)
ClientJoined(uuid, nm) == Frame("CLIENT_JOINED", NoSeq, uuid, nm, NoGroup, {}, NoData)
ClientLeft(uuid, nm) == Frame("CLIENT_LEFT", NoSeq, uuid, nm, NoGroup, {}, NoData)
Status(type, sq, group) == Frame(type, sq, NoUuid, NoName, group, {}, NoData)
Error(code, sq) == Frame(code, sq, NoUuid, NoName, NoGroup, {}, NoData)
Groups(gs) == Frame("GROUPS", NoSeq, NoUuid, NoName, NoGroup, gs, NoData)
Subscriptions(gs) == Frame("SUBSCRIPTIONS", NoSeq, NoUuid, NoName, NoGroup, gs, NoData)
\* JsonPayload::Clients and ::GroupSubscribers list clients, here by their uuids.
Clients(us) == Frame("CLIENTS", NoSeq, NoUuid, NoName, NoGroup, us, NoData)
GroupSubscribers(g, us) == Frame("GROUP_SUBSCRIBERS", NoSeq, NoUuid, NoName, g, us, NoData)
\* A MESSAGE passed on as the sender wrote it, with no origin stamped on it.
Message_unstamped(uuid, nm, group, data) ==
    Frame("MESSAGE", NoSeq, NoUuid, NoName, NoGroup, {}, data)

\* PayloadRawMessage::with_origin: origin {uuid, name, group?} and the raw data.
Message(uuid, nm, group, data) == Frame("MESSAGE", NoSeq, uuid, nm, group, {}, data)

\* ------------------------------------------------------------ the channel
\* The receiving half lives from Client::new until handle_client returns.
rx_open(u) == pc[u] \in {"mc_bcast", "mc_insert", "hello", "serving", "rm_name"}

\* Client::send_ws_msg: tx.send, which fails once the receiver is gone.
send_ws_msg(mb, u, frame) == IF rx_open(u) THEN [mb EXCEPT ![u] = Append(@, frame)] ELSE mb

\* A broadcast that goes to every client, whatever the group's members are.
broadcast_to_everyone(mb, cl, members, frame) ==
    [u \in Sessions |-> IF contains_key(cl, u) THEN send_ws_msg(mb, u, frame)[u] ELSE mb[u]]

\* ws::broadcast: to the members of a group that have a client; errors ignored.
broadcast(mb, cl, members, frame) ==
    [u \in Sessions |->
        IF u \in members /\ contains_key(cl, u) THEN send_ws_msg(mb, u, frame)[u] ELSE mb[u]]

\* ws::broadcast_all: to every client in the clients table; errors ignored.
broadcast_all(mb, cl, frame) ==
    [u \in Sessions |-> IF contains_key(cl, u) THEN send_ws_msg(mb, u, frame)[u] ELSE mb[u]]

\* ---------------------------------------------------------- identification
\* semver: VersionReq::parse of a bare "x.y.z" is the caret requirement ^x.y.z.
matches(req, v) ==
    IF req[1] > 0 THEN
        /\ v[1] = req[1]
        /\ \/ v[2] > req[2]
           \/ v[2] = req[2] /\ v[3] >= req[3]
    ELSE IF req[2] > 0 THEN v[1] = 0 /\ v[2] = req[2] /\ v[3] >= req[3]
    ELSE v = req

\* `secret != crate::SECRET`, a comparison of two Option<&str>.
secret_mismatch(secret) == secret # SECRET

Ok(nm) == [ok |-> TRUE, name |-> nm, code |-> NoCode]
Err(code) == [ok |-> FALSE, name |-> NoName, code |-> code]

\* handle_identification: Ok(name) or Err(close code).  Version::parse(..).unwrap()
\* panics on a string that is no version: the task dies and no close is sent.
handle_identification(f) ==
    IF f.kind = "none" THEN Err(AUTH_FAILED)
    ELSE IF f.kind = "garbage" THEN Err(FATAL_DECODE)
    ELSE IF f.kind # "identify" THEN Err(NO_AUTH)
    ELSE IF secret_mismatch(f.secret) THEN Err(BAD_SECRET)
    ELSE IF f.version = Unparsable THEN Err(PANICKED)
    ELSE IF ~matches(VERSION, f.version) THEN Err(BAD_VERSION)
    ELSE Ok(f.name)

\* -------------------------------------------------------------------- Init
Init ==
    /\ namespace = EmptyMap
    /\ clients = EmptyMap
    /\ groups = EmptyMap
    /\ mailbox = [s \in Sessions |-> <<>>]
    /\ nsWriter = NoUuid
    /\ clReaders = {}
    /\ pc = [s \in Sessions |-> "accepted"]
    /\ first = [s \in Sessions |-> NoFrame]
    /\ name = [s \in Sessions |-> NoName]
    /\ closeCode = [s \in Sessions |-> NoCode]
    /\ seq = [s \in Sessions |-> 0]
    /\ pending = [s \in Sessions |-> <<>>]
    /\ rejectedBy = [s \in Sessions |-> NoUuid]
    /\ outgoing = [s \in Sessions |-> <<>>]
    /\ files = [p \in Paths |-> NoEntry]
    /\ response = NoResponse

\* ------------------------------------------------- session: identification
\* timeout(5 s, socket.next()) resolves: the first frame, or none.
FirstFrame(s, f) ==
    /\ pc[s] = "accepted"
    /\ \A t \in Sessions : t < s => pc[t] # "accepted"
    /\ first' = [first EXCEPT ![s] = f]
    /\ pc' = [pc EXCEPT ![s] = "ident"]
    /\ UNCHANGED <<namespace, clients, groups, mailbox, nsWriter, clReaders,
                   name, closeCode, seq, pending, rejectedBy, outgoing, files, response>>

\* handle_socket_conn matching on handle_identification's result.
Identify(s) ==
    /\ pc[s] = "ident"
    /\ LET r == handle_identification(first[s]) IN
        IF r.ok
        THEN /\ name' = [name EXCEPT ![s] = r.name]
             /\ pc' = [pc EXCEPT ![s] = "mc_lock"]
             /\ UNCHANGED closeCode
        ELSE /\ closeCode' = [closeCode EXCEPT ![s] = r.code]
             /\ pc' = [pc EXCEPT ![s] = "closed"]
             /\ UNCHANGED name
    /\ first' = [first EXCEPT ![s] = NoFrame]
    /\ UNCHANGED <<namespace, clients, groups, mailbox, nsWriter, clReaders,
                   seq, pending, rejectedBy, outgoing, files, response>>

\* --------------------------------------------------- session: make_client
\* A make_client that never finds the name taken.
name_taken_never(ns, nm) == FALSE

\* make_client's duplicate check: namespace.contains_key(&name).
name_taken(ns, nm) == contains_key(ns, nm)

\* A make_client that inserts the name before it looks for a duplicate.
MakeClientCheckOverwrite(s) ==
    /\ pc[s] = "mc_lock"
    /\ nsWriter = NoUuid
    /\ namespace' = insert(namespace, name[s], s)
    /\ IF name_taken(namespace, name[s])
       THEN /\ closeCode' = [closeCode EXCEPT ![s] = DUPLICATE_AUTH]
            /\ rejectedBy' = [rejectedBy EXCEPT ![s] = namespace[name[s]]]
            /\ pc' = [pc EXCEPT ![s] = "closed"]
            /\ UNCHANGED nsWriter
       ELSE /\ nsWriter' = s
            /\ pc' = [pc EXCEPT ![s] = "mc_bcast"]
            /\ UNCHANGED <<closeCode, rejectedBy>>
    /\ UNCHANGED <<clients, groups, mailbox, clReaders, first, name, seq, pending,
                   outgoing, files, response>>

\* namespace.write().await, the duplicate check, and on a fresh name
\* Uuid::new_v4, namespace.insert and Client::new.  The write guard stays held.
MakeClientCheck(s) ==
    /\ pc[s] = "mc_lock"
    /\ nsWriter = NoUuid
    /\ IF name_taken(namespace, name[s])
       THEN /\ closeCode' = [closeCode EXCEPT ![s] = DUPLICATE_AUTH]
            /\ rejectedBy' = [rejectedBy EXCEPT ![s] = namespace[name[s]]]
            /\ pc' = [pc EXCEPT ![s] = "closed"]
            /\ UNCHANGED <<namespace, nsWriter>>
       ELSE /\ namespace' = insert(namespace, name[s], s)
            /\ nsWriter' = s
            /\ pc' = [pc EXCEPT ![s] = "mc_bcast"]
            /\ UNCHANGED <<closeCode, rejectedBy>>
    /\ UNCHANGED <<clients, groups, mailbox, clReaders, first, name, seq, pending,
                   outgoing, files, response>>

\* broadcast_all(STATUS/CLIENT_JOINED) under clients.read().
MakeClientBroadcast(s) ==
    /\ pc[s] = "mc_bcast"
    /\ mailbox' = broadcast_all(mailbox, clients, ClientJoined(s, name[s]))
    /\ pc' = [pc EXCEPT ![s] = "mc_insert"]
    /\ UNCHANGED <<namespace, clients, groups, nsWriter, clReaders, first, name,
                   closeCode, seq, pending, rejectedBy, outgoing, files, response>>

\* clients.write().await.insert(uuid, client); returning drops the namespace guard.
MakeClientInsert(s) ==
    /\ pc[s] = "mc_insert"
    /\ clReaders = {}
    /\ clients' = insert(clients, s, [name |-> name[s], groups |-> {}])
    /\ nsWriter' = NoUuid
    /\ pc' = [pc EXCEPT ![s] = "hello"]
    /\ UNCHANGED <<namespace, groups, mailbox, clReaders, first, name, closeCode,
                   seq, pending, rejectedBy, outgoing, files, response>>

\* handle_client: clients.read().await.get(uuid).unwrap().send(Hello).
SendHello(s) ==
    /\ pc[s] = "hello"
    /\ mailbox' = send_ws_msg(mailbox, s, Hello(s))
    /\ pc' = [pc EXCEPT ![s] = "serving"]
    /\ UNCHANGED <<namespace, clients, groups, nsWriter, clReaders, first, name,
                   closeCode, seq, pending, rejectedBy, outgoing, files, response>>

\* ------------------------------------------------------ session: serving
RECURSIVE SumSeq(_)
SumSeq(S) == IF S = {} THEN 0 ELSE LET x == CHOOSE x \in S : TRUE IN seq[x] + SumSeq(S \ {x})

\* incoming.next() yields a text frame of a client whose handler is idle.
CanReceive(s) == pc[s] = "serving" /\ SumSeq(Sessions) < MaxReq

\* Client::send of a reply to the requester; `seq += 1` ends the loop body.
Reply(s, mb, frame) == send_ws_msg(mb, s, frame)

NextSeq(s) == seq' = [seq EXCEPT ![s] = @ + 1]

\* Concierge::create_group: a new empty group unless the name is taken.
create_group(gs, g, owner) ==
    IF contains_key(gs, g) THEN gs ELSE insert(gs, g, [owner |-> owner, clients |-> {}])

\* The predicate of Concierge::remove_group's remove_if.
remove_if_owner(group, owner_id) == group.owner = owner_id

\* handle_payload, Payload::Subscribe.
Subscribe(s, g) ==
    /\ CanReceive(s)
    /\ IF contains_key(groups, g)
       THEN /\ groups' = [groups EXCEPT ![g].clients = @ \cup {s}]
            /\ clients' = [clients EXCEPT ![s].groups = @ \cup {g}]
            /\ mailbox' = Reply(s, mailbox, Status("SUBSCRIBED", seq[s], g))
       ELSE /\ mailbox' = Reply(s, mailbox, Error("NO_SUCH_GROUP", seq[s]))
            /\ UNCHANGED <<groups, clients>>
    /\ NextSeq(s)
    /\ UNCHANGED <<namespace, nsWriter, clReaders, pc, first, name, closeCode,
                   pending, rejectedBy, outgoing, files, response>>

\* handle_payload, Payload::Unsubscribe: the client's own set is trimmed in both arms.
Unsubscribe(s, g) ==
    /\ CanReceive(s)
    /\ IF contains_key(groups, g)
       THEN /\ groups' = [groups EXCEPT ![g].clients = @ \ {s}]
            /\ mailbox' = Reply(s, mailbox, Status("UNSUBSCRIBED", seq[s], g))
       ELSE /\ mailbox' = Reply(s, mailbox, Error("NO_SUCH_GROUP", seq[s]))
            /\ UNCHANGED groups
    /\ clients' = [clients EXCEPT ![s].groups = @ \ {g}]
    /\ NextSeq(s)
    /\ UNCHANGED <<namespace, nsWriter, clReaders, pc, first, name, closeCode,
                   pending, rejectedBy, outgoing, files, response>>

\* handle_payload, Payload::GroupCreate.
GroupCreate(s, g) ==
    /\ CanReceive(s)
    /\ groups' = create_group(groups, g, s)
    /\ mailbox' = Reply(s, mailbox,
                        IF contains_key(groups, g)
                        THEN Error("GROUP_ALREADY_CREATED", seq[s])
                        ELSE Status("CREATED_GROUP", seq[s], g))
    /\ NextSeq(s)
    /\ UNCHANGED <<namespace, clients, nsWriter, clReaders, pc, first, name,
                   closeCode, pending, rejectedBy, outgoing, files, response>>

\* handle_payload, Payload::GroupDelete, with Concierge::remove_group: the
\* members are told UNSUBSCRIBED (no seq) before the group is dropped.
GroupDelete(s, g) ==
    /\ CanReceive(s)
    /\ IF contains_key(groups, g) /\ remove_if_owner(groups[g], s)
       THEN /\ groups' = remove(groups, g)
            /\ mailbox' = Reply(s,
                    broadcast(mailbox, clients, groups[g].clients,
                              Status("UNSUBSCRIBED", NoSeq, g)),
                    Status("DELETED_GROUP", seq[s], g))
       ELSE /\ mailbox' = Reply(s, mailbox, Error("NO_SUCH_GROUP", seq[s]))
            /\ UNCHANGED groups
    /\ NextSeq(s)
    /\ UNCHANGED <<namespace, clients, nsWriter, clReaders, pc, first, name,
                   closeCode, pending, rejectedBy, outgoing, files, response>>

\* handle_payload, Payload::FetchGroups.
FetchGroups(s) ==
    /\ CanReceive(s)
    /\ mailbox' = Reply(s, mailbox, Groups(DOMAIN groups))
    /\ NextSeq(s)
    /\ UNCHANGED <<namespace, clients, groups, nsWriter, clReaders, pc, first,
                   name, closeCode, pending, rejectedBy, outgoing, files, response>>

\* handle_payload, Payload::FetchSubscriptions: the names of concierge.groups.
FetchSubscriptions(s) ==
    /\ CanReceive(s)
    /\ mailbox' = Reply(s, mailbox, Subscriptions(DOMAIN groups))
    /\ NextSeq(s)
    /\ UNCHANGED <<namespace, clients, groups, nsWriter, clReaders, pc, first,
                   name, closeCode, pending, rejectedBy, outgoing, files, response>>

\* handle_payload, Payload::FetchClients.
FetchClients(s) ==
    /\ CanReceive(s)
    /\ mailbox' = Reply(s, mailbox, Clients(DOMAIN clients))
    /\ NextSeq(s)
    /\ UNCHANGED <<namespace, clients, groups, nsWriter, clReaders, pc, first,
                   name, closeCode, pending, rejectedBy, outgoing, files, response>>

\* handle_payload, Payload::FetchGroupSubscribers: the members that have a
\* client; nothing is sent when the group is not there.
FetchGroupSubscribers(s, g) ==
    /\ CanReceive(s)
    /\ mailbox' = IF contains_key(groups, g)
                  THEN Reply(s, mailbox,
                             GroupSubscribers(g, {u \in groups[g].clients : contains_key(clients, u)}))
                  ELSE mailbox
    /\ NextSeq(s)
    /\ UNCHANGED <<namespace, clients, groups, nsWriter, clReaders, pc, first,
                   name, closeCode, pending, rejectedBy, outgoing, files, response>>

\* handle_payload, the `_` arm: a payload that parses but is no request
\* (IDENTIFY, HELLO, STATUS, ...).
Unsupported(s) ==
    /\ CanReceive(s)
    /\ mailbox' = Reply(s, mailbox, Error("UNSUPPORTED", seq[s]))
    /\ NextSeq(s)
    /\ UNCHANGED <<namespace, clients, groups, nsWriter, clReaders, pc, first,
                   name, closeCode, pending, rejectedBy, outgoing, files, response>>

\* handle_incoming_messages, the Err arm: a text frame that is no payload is
\* answered with err::protocol(seq), and `seq += 1` follows as for every
\* text frame.
Malformed(s) ==
    /\ CanReceive(s)
    /\ mailbox' = Reply(s, mailbox, Error("PROTOCOL", seq[s]))
    /\ NextSeq(s)
    /\ UNCHANGED <<namespace, clients, groups, nsWriter, clReaders, pc, first,
                   name, closeCode, pending, rejectedBy, outgoing, files, response>>

\* handle_raw_message, Target::Uuid.  `target_client.send(..)?` returns the
\* channel error to handle_incoming_messages, which ends the sender's session.
MessageUuid(s, u, d) ==
    /\ CanReceive(s)
    /\ IF contains_key(clients, u) /\ ~rx_open(u)
       THEN /\ pc' = [pc EXCEPT ![s] = "t_remove"]
            /\ mailbox' = [mailbox EXCEPT ![s] = <<>>]
            /\ outgoing' = [outgoing EXCEPT ![s] = <<>>]
            /\ UNCHANGED seq
       ELSE /\ mailbox' =
                IF contains_key(clients, u)
                THEN Reply(s, send_ws_msg(mailbox, u, Message(s, clients[s].name, NoGroup, d)),
                           Status("MESSAGE_SENT", seq[s], NoGroup))
                ELSE Reply(s, mailbox, Error("NO_SUCH_UUID", seq[s]))
            /\ NextSeq(s)
            /\ UNCHANGED <<pc, outgoing>>
    /\ UNCHANGED <<namespace, clients, groups, nsWriter, clReaders, first, name,
                   closeCode, pending, rejectedBy, files, response>>

\* handle_raw_message, Target::Group, with ws::broadcast.
MessageGroup(s, g, d) ==
    /\ CanReceive(s)
    /\ mailbox' =
        IF contains_key(groups, g)
        THEN Reply(s, broadcast(mailbox, clients, groups[g].clients,
                                Message(s, clients[s].name, g, d)),
                   Status("MESSAGE_SENT", seq[s], NoGroup))
        ELSE Reply(s, mailbox, Error("NO_SUCH_GROUP", seq[s]))
    /\ NextSeq(s)
    /\ UNCHANGED <<namespace, clients, groups, nsWriter, clReaders, pc, first,
                   name, closeCode, pending, rejectedBy, outgoing, files, response>>

\* handle_raw_message, Target::All, with ws::broadcast_all.
MessageAll(s, d) ==
    /\ CanReceive(s)
    /\ mailbox' = Reply(s, broadcast_all(mailbox, clients, Message(s, clients[s].name, NoGroup, d)),
                        Status("MESSAGE_SENT", seq[s], NoGroup))
    /\ NextSeq(s)
    /\ UNCHANGED <<namespace, clients, groups, nsWriter, clReaders, pc, first,
                   name, closeCode, pending, rejectedBy, outgoing, files, response>>

\* handle_raw_message, Target::Name, up to namespace.read().await: the
\* clients.read() guard taken on entry is held while waiting.
MessageNameStart(s, n, d) ==
    /\ CanReceive(s)
    /\ clReaders' = clReaders \cup {s}
    /\ pending' = [pending EXCEPT ![s] = <<n, d>>]
    /\ pc' = [pc EXCEPT ![s] = "rm_name"]
    /\ UNCHANGED <<namespace, clients, groups, mailbox, nsWriter, first, name,
                   closeCode, seq, rejectedBy, outgoing, files, response>>

\* handle_raw_message, Target::Name, once namespace.read() is granted.
MessageNameFinish(s) ==
    /\ pc[s] = "rm_name"
    /\ nsWriter = NoUuid
    /\ LET n == pending[s][1]
           d == pending[s][2]
           found == contains_key(namespace, n) /\ contains_key(clients, namespace[n])
       IN IF found /\ ~rx_open(namespace[n])
          THEN /\ pc' = [pc EXCEPT ![s] = "t_remove"]
               /\ mailbox' = [mailbox EXCEPT ![s] = <<>>]
               /\ outgoing' = [outgoing EXCEPT ![s] = <<>>]
               /\ UNCHANGED seq
          ELSE /\ mailbox' =
                    IF found
                    THEN Reply(s, send_ws_msg(mailbox, namespace[n],
                                              Message(s, clients[s].name, NoGroup, d)),
                               Status("MESSAGE_SENT", seq[s], NoGroup))
                    ELSE Reply(s, mailbox, Error("NO_SUCH_NAME", seq[s]))
               /\ NextSeq(s)
               /\ pc' = [pc EXCEPT ![s] = "serving"]
               /\ UNCHANGED outgoing
    /\ clReaders' = clReaders \ {s}
    /\ pending' = [pending EXCEPT ![s] = <<>>]
    /\ UNCHANGED <<namespace, clients, groups, nsWriter, first, name, closeCode,
                   rejectedBy, files, response>>

\* A receiver that yields the newest frame of the channel.
rx_next_newest(q, n) == q[Len(q)]

\* rx as a stream: the oldest frame of the channel that was not yet taken,
\* n frames having been taken before.
rx_next(q, n) == q[n + 1]

\* handle_client's receive_from_others, polled by future::select:
\* rx.map(Ok).forward(outgoing) moves one frame from the channel to the socket.
Forward(s) ==
    /\ pc[s] \in {"serving", "rm_name"}
    /\ Len(outgoing[s]) < Len(mailbox[s])
    /\ outgoing' = [outgoing EXCEPT ![s] = Append(@, rx_next(mailbox[s], Len(@)))]
    /\ UNCHANGED <<namespace, clients, groups, mailbox, nsWriter, clReaders, pc,
                   first, name, closeCode, seq, pending, rejectedBy, files, response>>

\* future::select returns: the socket closed or failed.  A handler suspended
\* on a lock is dropped with the guards it holds, and the receiver and the
\* socket are dropped with the frames still in the channel.
Disconnect(s) ==
    /\ pc[s] \in {"serving", "rm_name"}
    /\ pc' = [pc EXCEPT ![s] = "t_remove"]
    /\ clReaders' = clReaders \ {s}
    /\ pending' = [pending EXCEPT ![s] = <<>>]
    /\ mailbox' = [mailbox EXCEPT ![s] = <<>>]
    /\ outgoing' = [outgoing EXCEPT ![s] = <<>>]
    /\ UNCHANGED <<namespace, clients, groups, nsWriter, first, name,
                   closeCode, seq, rejectedBy, files, response>>

\* ------------------------------------------------------- the file endpoint
\* Path::parent of base_path(name).join(tail), when it lies below the owner's
\* directory.
parent(tail) == IF tail = "d/f" THEN "d" ELSE "-"

\* Path::is_file.
is_file(fsys, nm, tail) == fsys[<<nm, tail>>] = IsFile

\* handle_file_get: the results it can return.  File::open of a directory
\* succeeds where the platform opens directories for reading and fails
\* where it does not.
handle_file_get(cl, fsys, nm, auth, tail) ==
    IF ~contains_key(cl, auth) THEN {BadAuthorization}
    ELSE IF is_file(fsys, nm, tail) THEN {NotAFile}
    ELSE IF fsys[<<nm, tail>>] = IsDir THEN {ACCEPTED, FileNotFound}
    ELSE {FileNotFound}

\* An authorization that asks for a registered key and not for the owner.
authorize_any_client(cl, nm, auth) ==
    IF ~contains_key(cl, auth) THEN BadAuthorization ELSE OK

\* The authorization of handle_file_delete and handle_file_put: the error it
\* returns, or OK.
authorize_owner(cl, nm, auth) ==
    IF ~contains_key(cl, auth) THEN BadAuthorization
    ELSE IF cl[auth].name # nm THEN Forbidden
    ELSE OK

\* handle_file_delete: tokio::fs::remove_file removes a file and nothing else.
handle_file_delete(cl, fsys, nm, auth, tail) ==
    IF authorize_owner(cl, nm, auth) # OK
    THEN [result |-> authorize_owner(cl, nm, auth), files |-> fsys]
    ELSE IF fsys[<<nm, tail>>] = IsFile
    THEN [result |-> OK, files |-> [fsys EXCEPT ![<<nm, tail>>] = NoEntry]]
    ELSE [result |-> FileNotFound, files |-> fsys]

\* create_dir_all(file_path.parent()): the tree afterwards, or the tree as it
\* was when a file is in the way.
create_dir_all(fsys, nm, dir) ==
    IF dir = "-" \/ fsys[<<nm, dir>>] = IsFile THEN fsys
    ELSE [fsys EXCEPT ![<<nm, dir>>] = IsDir]

\* handle_file_put: create_dir_all, then OpenOptions create + write, then
\* the body is written.
handle_file_put(cl, fsys, nm, auth, tail) ==
    IF authorize_owner(cl, nm, auth) # OK
    THEN [result |-> authorize_owner(cl, nm, auth), files |-> fsys]
    ELSE IF parent(tail) # "-" /\ fsys[<<nm, parent(tail)>>] = IsFile
    THEN [result |-> Unknown, files |-> fsys]
    ELSE IF fsys[<<nm, tail>>] = IsDir
    THEN [result |-> FileNotFound, files |-> create_dir_all(fsys, nm, parent(tail))]
    ELSE [result |-> CREATED,
          files |-> [create_dir_all(fsys, nm, parent(tail)) EXCEPT ![<<nm, tail>>] = IsFile]]

\* tokio::fs::remove_dir_all(./fs/<name>), its error ignored.
remove_dir_all(fsys, nm) == [p \in DOMAIN fsys |-> IF p[1] = nm THEN NoEntry ELSE fsys[p]]

Respond(op, auth, nm, tail, result) ==
    response' = [op |-> op, auth |-> auth, name |-> nm, tail |-> tail, result |-> result]

\* GET /fs/<name>/<tail> with the key auth.
FileGet(auth, nm, tail) ==
    /\ \E r \in handle_file_get(clients, files, nm, auth, tail) : Respond("GET", auth, nm, tail, r)
    /\ UNCHANGED <<namespace, clients, groups, mailbox, nsWriter, clReaders, pc, first,
                   name, closeCode, seq, pending, rejectedBy, outgoing, files>>

\* PUT /fs/<name>/<tail> with the key auth.
FilePut(auth, nm, tail) ==
    /\ Respond("PUT", auth, nm, tail, handle_file_put(clients, files, nm, auth, tail).result)
    /\ files' = handle_file_put(clients, files, nm, auth, tail).files
    /\ UNCHANGED <<namespace, clients, groups, mailbox, nsWriter, clReaders, pc, first,
                   name, closeCode, seq, pending, rejectedBy, outgoing>>

\* DELETE /fs/<name>/<tail> with the key auth.
FileDelete(auth, nm, tail) ==
    /\ Respond("DELETE", auth, nm, tail,
               handle_file_delete(clients, files, nm, auth, tail).result)
    /\ files' = handle_file_delete(clients, files, nm, auth, tail).files
    /\ UNCHANGED <<namespace, clients, groups, mailbox, nsWriter, clReaders, pc, first,
                   name, closeCode, seq, pending, rejectedBy, outgoing>>

\* ------------------------------------------------------ session: teardown
\* A retain closure that keeps every group.
retain_keeps_all(group, owner_id) == TRUE

\* The closure of groups.retain in remove_groups_owned_by: its result (the
\* group stays) and the branch that calls ws::broadcast(unsubscribed).
retain_keeps(group, owner_id) == group.owner # owner_id

retain_notifies(group, owner_id) == group.owner # owner_id

\* The orders in which a hash map may be iterated.
Orders(S) == {q \in [1..Cardinality(S) -> S] : \A i, j \in DOMAIN q : i # j => q[i] # q[j]}

\* The frames the retain closure sends while visiting the groups in `order`.
RECURSIVE retain_broadcasts(_, _, _, _, _, _)
retain_broadcasts(mb, cl, gs, order, i, owner_id) ==
    IF i > Len(order) THEN mb
    ELSE LET g == order[i]
             mb1 == IF retain_notifies(gs[g], owner_id)
                    THEN broadcast(mb, cl, gs[g].clients, Status("UNSUBSCRIBED", NoSeq, g))
                    ELSE mb
         IN retain_broadcasts(mb1, cl, gs, order, i + 1, owner_id)

\* Concierge::remove_groups_owned_by.
remove_groups_owned_by(gs, owner_id) ==
    [g \in {x \in DOMAIN gs : retain_keeps(gs[x], owner_id)} |-> gs[g]]

\* Concierge::remove_from_all_groups.
remove_from_all_groups(gs, uuid) == [g \in DOMAIN gs |-> [gs[g] EXCEPT !.clients = @ \ {uuid}]]

\* A remove_take that leaves the client in the table.
remove_take_nothing(cl, uuid) == cl

\* clients.remove_take(&uuid).
remove_take(cl, uuid) == remove(cl, uuid)

\* A remove_client that goes on without the client it was to remove.
TeardownRemoveAnyway(s) ==
    /\ pc[s] = "t_remove"
    /\ clReaders = {}
    /\ clients' = remove_take(clients, s)
    /\ pc' = [pc EXCEPT ![s] = "t_name"]
    /\ UNCHANGED <<namespace, groups, mailbox, nsWriter, clReaders, first, name,
                   closeCode, seq, pending, rejectedBy, outgoing, files, response>>

\* Concierge::remove_client, first statement; for an absent uuid it is the
\* Err return, which ws::remove_client and handle_socket_conn pass on.
TeardownRemove(s) ==
    /\ pc[s] = "t_remove"
    /\ clReaders = {}
    /\ IF contains_key(clients, s)
       THEN /\ clients' = remove_take(clients, s)
            /\ pc' = [pc EXCEPT ![s] = "t_name"]
       ELSE /\ pc' = [pc EXCEPT ![s] = "t_err"]
            /\ UNCHANGED clients
    /\ UNCHANGED <<namespace, groups, mailbox, nsWriter, clReaders, first, name,
                   closeCode, seq, pending, rejectedBy, outgoing, files, response>>

\* Concierge::remove_name: namespace.write().await.remove(name).
TeardownName(s) ==
    /\ pc[s] = "t_name"
    /\ nsWriter = NoUuid
    /\ namespace' = remove(namespace, name[s])
    /\ pc' = [pc EXCEPT ![s] = "t_reap"]
    /\ UNCHANGED <<clients, groups, mailbox, nsWriter, clReaders, first, name,
                   closeCode, seq, pending, rejectedBy, outgoing, files, response>>

\* Concierge::remove_groups_owned_by(client.uuid()).
TeardownReap(s) ==
    /\ pc[s] = "t_reap"
    /\ \E order \in Orders(DOMAIN groups) :
          mailbox' = retain_broadcasts(mailbox, clients, groups, order, 1, s)
    /\ groups' = remove_groups_owned_by(groups, s)
    /\ pc' = [pc EXCEPT ![s] = "t_trim"]
    /\ UNCHANGED <<namespace, clients, nsWriter, clReaders, first, name,
                   closeCode, seq, pending, rejectedBy, outgoing, files, response>>

\* Concierge::remove_from_all_groups(client.uuid()).
TeardownTrim(s) ==
    /\ pc[s] = "t_trim"
    /\ groups' = remove_from_all_groups(groups, s)
    /\ pc' = [pc EXCEPT ![s] = "t_left"]
    /\ UNCHANGED <<namespace, clients, mailbox, nsWriter, clReaders, first, name,
                   closeCode, seq, pending, rejectedBy, outgoing, files, response>>

\* ws::remove_client: broadcast_all(STATUS/CLIENT_LEFT) and the removal of
\* the client's directory, then the session ends.
TeardownLeft(s) ==
    /\ pc[s] = "t_left"
    /\ mailbox' = broadcast_all(mailbox, clients, ClientLeft(s, name[s]))
    /\ files' = remove_dir_all(files, name[s])
    /\ pc' = [pc EXCEPT ![s] = "done"]
    /\ UNCHANGED <<namespace, clients, groups, nsWriter, clReaders, first, name,
                   closeCode, seq, pending, rejectedBy, outgoing, response>>

\* A caller runs the cleanup of a session once more after it has ended:
\* ws::remove_client with the uuid of that session.
RemoveAgain(s) ==
    /\ pc[s] \in {"done", "t_err"}
    /\ pc' = [pc EXCEPT ![s] = "t_remove"]
    /\ UNCHANGED <<namespace, clients, groups, mailbox, nsWriter, clReaders, first,
                   name, closeCode, seq, pending, rejectedBy, outgoing, files, response>>

\* ------------------------------------------------------------------- Next
Next ==
    \E s \in Sessions :
        \/ \E f \in FirstFrames : FirstFrame(s, f)
        \/ Identify(s)
        \/ MakeClientCheck(s)
        \/ MakeClientBroadcast(s)
        \/ MakeClientInsert(s)
        \/ SendHello(s)
        \/ \E g \in GroupNames : Subscribe(s, g)
        \/ \E g \in GroupNames : Unsubscribe(s, g)
        \/ \E g \in GroupNames : GroupCreate(s, g)
        \/ \E g \in GroupNames : GroupDelete(s, g)
        \/ FetchGroups(s)
        \/ FetchSubscriptions(s)
        \/ FetchClients(s)
        \/ \E g \in GroupNames : FetchGroupSubscribers(s, g)
        \/ Unsupported(s)
        \/ Malformed(s)
        \/ \E u \in Sessions, d \in DataValues : MessageUuid(s, u, d)
        \/ \E g \in GroupNames, d \in DataValues : MessageGroup(s, g, d)
        \/ \E d \in DataValues : MessageAll(s, d)
        \/ \E n \in Names, d \in DataValues : MessageNameStart(s, n, d)
        \/ MessageNameFinish(s)
        \/ Forward(s)
        \/ Disconnect(s)
        \/ TeardownRemove(s)
        \/ TeardownName(s)
        \/ TeardownReap(s)
        \/ TeardownTrim(s)
        \/ TeardownLeft(s)
        \/ \E nm \in Names, tail \in Tails : FileGet(s, nm, tail)
        \/ \E nm \in Names, tail \in Tails : FilePut(s, nm, tail)
        \/ \E nm \in Names, tail \in Tails : FileDelete(s, nm, tail)

\* Every connection from the start, with requests.  InitServing below is one
\* of its reachable states.
Spec == Init /\ [][Next]_vars

\* Connections only: identification, registration, HELLO, disconnect, teardown.
NextLife ==
    \E s \in Sessions :
        \/ \E f \in FirstFrames : FirstFrame(s, f)
        \/ Identify(s)
        \/ MakeClientCheck(s)
        \/ MakeClientBroadcast(s)
        \/ MakeClientInsert(s)
        \/ SendHello(s)
        \/ Disconnect(s)
        \/ TeardownRemove(s)
        \/ TeardownName(s)
        \/ TeardownReap(s)
        \/ TeardownTrim(s)
        \/ TeardownLeft(s)

SpecLife == Init /\ [][NextLife]_vars

\* Connections as in NextLife, with cleanups that are run a second time.
NextCleanup ==
    \E s \in Sessions :
        \/ \E f \in FirstFrames : FirstFrame(s, f)
        \/ Identify(s)
        \/ MakeClientCheck(s)
        \/ MakeClientBroadcast(s)
        \/ MakeClientInsert(s)
        \/ SendHello(s)
        \/ Disconnect(s)
        \/ TeardownRemove(s)
        \/ TeardownName(s)
        \/ TeardownReap(s)
        \/ TeardownTrim(s)
        \/ TeardownLeft(s)
        \/ RemoveAgain(s)

SpecCleanup == Init /\ [][NextCleanup]_vars

\* Requests and departures of the clients that are connected.
NextServe ==
    \E s \in Sessions :
        \/ \E g \in GroupNames : Subscribe(s, g)
        \/ \E g \in GroupNames : Unsubscribe(s, g)
        \/ \E g \in GroupNames : GroupCreate(s, g)
        \/ \E g \in GroupNames : GroupDelete(s, g)
        \/ FetchGroups(s)
        \/ \E u \in Sessions, d \in DataValues : MessageUuid(s, u, d)
        \/ \E g \in GroupNames, d \in DataValues : MessageGroup(s, g, d)
        \/ \E d \in DataValues : MessageAll(s, d)
        \/ \E n \in Names, d \in DataValues : MessageNameStart(s, n, d)
        \/ MessageNameFinish(s)
        \/ Disconnect(s)
        \/ TeardownRemove(s)
        \/ TeardownName(s)
        \/ TeardownReap(s)
        \/ TeardownTrim(s)
        \/ TeardownLeft(s)

\* The state after "alice" and then "bob" have connected, alice has created
\* the group "chat" and bob has subscribed to it; the third socket has sent
\* nothing yet.
InitServing ==
    /\ namespace = [n \in {"alice", "bob"} |-> IF n = "alice" THEN 1 ELSE 2]
    /\ clients = [u \in {1, 2} |->
                    IF u = 1 THEN [name |-> "alice", groups |-> {}]
                    ELSE [name |-> "bob", groups |-> {"chat"}]]
    /\ groups = [g \in {"chat"} |-> [owner |-> 1, clients |-> {2}]]
    /\ mailbox = [s \in Sessions |->
                    IF s = 1 THEN <<Hello(1), ClientJoined(2, "bob"),
                                    Status("CREATED_GROUP", 0, "chat")>>
                    ELSE IF s = 2 THEN <<Hello(2), Status("SUBSCRIBED", 0, "chat")>>
                    ELSE <<>>]
    /\ nsWriter = NoUuid
    /\ clReaders = {}
    /\ pc = [s \in Sessions |-> IF s \in {1, 2} THEN "serving" ELSE "accepted"]
    /\ first = [s \in Sessions |-> NoFrame]
    /\ name = [s \in Sessions |-> IF s = 1 THEN "alice" ELSE IF s = 2 THEN "bob" ELSE NoName]
    /\ closeCode = [s \in Sessions |-> NoCode]
    /\ seq = [s \in Sessions |-> IF s \in {1, 2} THEN 1 ELSE 0]
    /\ pending = [s \in Sessions |-> <<>>]
    /\ rejectedBy = [s \in Sessions |-> NoUuid]
    /\ outgoing = [s \in Sessions |-> <<>>]
    /\ files = [p \in Paths |-> NoEntry]
    /\ response = NoResponse

SpecServing == InitServing /\ [][NextServe]_vars

\* Group management and FETCH_SUBSCRIPTIONS of the clients that are connected.
NextFetch ==
    \E s \in Sessions :
        \/ \E g \in GroupNames : Subscribe(s, g)
        \/ \E g \in GroupNames : Unsubscribe(s, g)
        \/ \E g \in GroupNames : GroupCreate(s, g)
        \/ \E g \in GroupNames : GroupDelete(s, g)
        \/ FetchSubscriptions(s)
        \/ Disconnect(s)
        \/ TeardownRemove(s)
        \/ TeardownName(s)
        \/ TeardownReap(s)
        \/ TeardownTrim(s)
        \/ TeardownLeft(s)

SpecFetch == InitServing /\ [][NextFetch]_vars

\* A third connection registering while the connected clients send
\* NAME-targeted messages: the handlers that hold one registry guard while
\* they wait for another.
NextLock ==
    \E s \in Sessions :
        \/ \E f \in FirstFrames : FirstFrame(s, f)
        \/ Identify(s)
        \/ MakeClientCheck(s)
        \/ MakeClientBroadcast(s)
        \/ MakeClientInsert(s)
        \/ SendHello(s)
        \/ \E n \in Names, d \in DataValues : MessageNameStart(s, n, d)
        \/ MessageNameFinish(s)
        \/ Disconnect(s)
        \/ TeardownRemove(s)
        \/ TeardownName(s)
        \/ TeardownReap(s)
        \/ TeardownTrim(s)
        \/ TeardownLeft(s)

SpecLock == InitServing /\ [][NextLock]_vars

\* The first frames of a third client: an IDENTIFY of the current version
\* under a name that is taken or under a name nobody holds.
Newcomer == "carol"
NewcomerFrames ==
    [kind : {"identify"}, name : Names \cup {Newcomer}, version : {VERSION},
     secret : Secrets]

\* The steps of session s that wait for nothing but the scheduler and the
\* registry locks: the connection task between two awaits.  What the peer
\* decides (sending a frame, closing the socket) is not among them.
TaskStep(s) ==
    \/ Identify(s)
    \/ MakeClientCheck(s)
    \/ MakeClientBroadcast(s)
    \/ MakeClientInsert(s)
    \/ SendHello(s)
    \/ MessageNameFinish(s)
    \/ TeardownRemove(s)
    \/ TeardownName(s)
    \/ TeardownReap(s)
    \/ TeardownTrim(s)
    \/ TeardownLeft(s)

\* A third client registering while the connected clients send NAME-targeted
\* messages and disconnect.
NextTeardown ==
    \E s \in Sessions :
        \/ \E f \in NewcomerFrames : FirstFrame(s, f)
        \/ \E n \in Names, d \in DataValues : MessageNameStart(s, n, d)
        \/ Disconnect(s)
        \/ TaskStep(s)

\* tokio polls every task that is ready: a step of a connection task that
\* stays possible is taken.
SpecTeardown ==
    /\ InitServing
    /\ [][NextTeardown]_vars
    /\ \A s \in Sessions : WF_vars(TaskStep(s))

\* Messages of the connected clients and the dispatchers draining the
\* mailboxes to the sockets.
NextFifo ==
    \E s \in Sessions :
        \/ \E u \in Sessions, d \in DataValues : MessageUuid(s, u, d)
        \/ \E g \in GroupNames, d \in DataValues : MessageGroup(s, g, d)
        \/ \E d \in DataValues : MessageAll(s, d)
        \/ Forward(s)
        \/ Disconnect(s)
        \/ TeardownRemove(s)
        \/ TeardownName(s)
        \/ TeardownReap(s)
        \/ TeardownTrim(s)
        \/ TeardownLeft(s)

SpecFifo == InitServing /\ [][NextFifo]_vars

\* Every kind of frame a connected client can send that is answered to the
\* client itself: the requests of handle_payload, a payload that is no
\* request and a text frame that is no payload.
NextReply ==
    \E s \in Sessions :
        \/ \E g \in GroupNames : Subscribe(s, g)
        \/ \E g \in GroupNames : Unsubscribe(s, g)
        \/ \E g \in GroupNames : GroupCreate(s, g)
        \/ \E g \in GroupNames : GroupDelete(s, g)
        \/ FetchGroups(s)
        \/ FetchSubscriptions(s)
        \/ FetchClients(s)
        \/ \E g \in GroupNames : FetchGroupSubscribers(s, g)
        \/ Unsupported(s)
        \/ Malformed(s)
        \/ \E g \in GroupNames, d \in DataValues : MessageGroup(s, g, d)
        \/ Disconnect(s)
        \/ TeardownRemove(s)
        \/ TeardownName(s)
        \/ TeardownReap(s)
        \/ TeardownTrim(s)
        \/ TeardownLeft(s)

SpecReply == InitServing /\ [][NextReply]_vars

\* The file endpoint, used with the key of every session, next to the
\* departures of the connected clients.
NextFs ==
    \E s \in Sessions :
        \/ \E nm \in Names, tail \in Tails : FileGet(s, nm, tail)
        \/ \E nm \in Names, tail \in Tails : FilePut(s, nm, tail)
        \/ \E nm \in Names, tail \in Tails : FileDelete(s, nm, tail)
        \/ Disconnect(s)
        \/ TeardownRemove(s)
        \/ TeardownName(s)
        \/ TeardownReap(s)
        \/ TeardownTrim(s)
        \/ TeardownLeft(s)

SpecFs == InitServing /\ [][NextFs]_vars

\* ================================================================ claims
Frames(q) == {q[i] : i \in DOMAIN q}

Count(q, f) == Cardinality({i \in DOMAIN q : q[i] = f})

\* The session's name is in Namespace on its behalf: from make_client's
\* insert until remove_name.
HoldsName(s) ==
    pc[s] \in {"mc_bcast", "mc_insert", "hello", "serving", "rm_name", "t_remove", "t_name"}

\* No session is inside a registration or a teardown.
Quiescent == \A s \in Sessions : pc[s] \in {"accepted", "closed", "serving", "done"}

\* C1: of the sessions identifying with one name at most one is registered at
\* a time; a session is closed with DUPLICATE_AUTH only while another session
\* holds its name, and it then has no client and no frame; Namespace and
\* Clients hold one entry per registered name, and a serving client has
\* been sent its HELLO.
C1_ExactlyOneRegistered ==
    /\ \A s, t \in Sessions :
          (s # t /\ name[s] # NoName /\ name[s] = name[t]) => ~(HoldsName(s) /\ HoldsName(t))
    /\ \A n \in DOMAIN namespace : HoldsName(namespace[n]) /\ name[namespace[n]] = n
    /\ \A n \in Names : Cardinality({u \in DOMAIN clients : clients[u].name = n}) <= 1
    /\ \A u \in DOMAIN clients :
          clients[u].name \in DOMAIN namespace /\ namespace[clients[u].name] = u
    /\ \A s \in Sessions :
          closeCode[s] = DUPLICATE_AUTH =>
             /\ rejectedBy[s] \in Sessions \ {s}
             /\ name[rejectedBy[s]] = name[s]
             /\ s \notin DOMAIN clients
             /\ mailbox[s] = <<>>
    /\ \A s \in Sessions : pc[s] = "serving" => Hello(s) \in Frames(mailbox[s])

C1_Witness ==
    \E s, t \in Sessions :
        /\ s # t /\ name[s] = name[t]
        /\ pc[s] = "serving" /\ Hello(s) \in Frames(mailbox[s])
        /\ closeCode[t] = DUPLICATE_AUTH /\ rejectedBy[t] = s

\* C2: whenever the namespace guard is free (so that another session or the
\* file endpoint can read both tables), a name is in Namespace exactly when
\* Clients holds a client of that name under the uuid Namespace gives.
C2_NamespaceSymmetry ==
    nsWriter = NoUuid =>
        /\ \A n \in DOMAIN namespace :
              namespace[n] \in DOMAIN clients /\ clients[namespace[n]].name = n
        /\ \A u \in DOMAIN clients :
              clients[u].name \in DOMAIN namespace /\ namespace[clients[u].name] = u

\* C3: between registrations and teardowns, for every group g and uuid u:
\* u is a member of g exactly when u is a client whose subscription set
\* holds g's name.
C3_SubscriptionSymmetry ==
    Quiescent =>
        \A g \in DOMAIN groups : \A u \in Sessions :
            (u \in groups[g].clients) <=> (u \in DOMAIN clients /\ g \in clients[u].groups)

\* C4: the owner of every group in Groups is a uuid present in Clients, in
\* every state (no guard on Groups or Clients is held between steps).
C4_OwnerPresent == \A g \in DOMAIN groups : groups[g].owner \in DOMAIN clients

\* C5: after a client's teardown Groups holds no group it owns; no step of a
\* teardown removes or re-owns a group of another client; and a GROUPS reply
\* lists only groups that are in Groups and not owned by a torn-down client.
TeardownPcs == {"t_remove", "t_name", "t_reap", "t_trim", "t_left"}

C5_NoGroupOfDeparted ==
    \A s \in Sessions : pc[s] = "done" => \A g \in DOMAIN groups : groups[g].owner # s

C5_TeardownStep ==
    /\ \A s \in Sessions :
          (pc[s] \in TeardownPcs /\ pc'[s] # pc[s]) =>
              \A g \in DOMAIN groups :
                  groups[g].owner # s =>
                      g \in DOMAIN groups' /\ groups'[g].owner = groups[g].owner
    /\ \A c \in Sessions :
          (/\ Len(mailbox'[c]) = Len(mailbox[c]) + 1
           /\ mailbox'[c][Len(mailbox'[c])].type = "GROUPS") =>
              \A g \in mailbox'[c][Len(mailbox'[c])].groups :
                  /\ g \in DOMAIN groups
                  /\ \A s \in Sessions : pc[s] = "done" => groups[g].owner # s

\* C5: both parts, the invariant on finished teardowns and the property of steps.
C5_OwnerReap == []C5_NoGroupOfDeparted /\ [][C5_TeardownStep]_vars

\* alice (uuid 1) left without deleting "chat" herself, bob's "dev" is still
\* there, and bob's FETCH_GROUPS was answered with "dev" alone.
C5_Witness ==
    /\ pc[1] = "done" /\ seq[1] = 1
    /\ DOMAIN groups = {"dev"} /\ groups["dev"].owner = 2
    /\ Groups({"dev"}) \in Frames(mailbox[2])

\* C6: the step that reaps the groups of a departing owner enqueues, for each
\* group it owns, exactly one STATUS/UNSUBSCRIBED for that group to every
\* member that is still a connected client (CLIENT_LEFT is sent by a later
\* step of the same teardown).
C6_ReapStep ==
    \A s \in Sessions :
        (pc[s] = "t_reap" /\ pc'[s] = "t_trim") =>
            \A g \in DOMAIN groups :
                groups[g].owner = s =>
                    \A m \in groups[g].clients :
                        (m \in DOMAIN clients /\ rx_open(m)) =>
                            Count(mailbox'[m], Status("UNSUBSCRIBED", NoSeq, g))
                                = Count(mailbox[m], Status("UNSUBSCRIBED", NoSeq, g)) + 1

\* C6: every reap step notifies the remaining members of the reaped groups once.
C6_ReapNotifiesMembers == [][C6_ReapStep]_vars

\* C7: the first frame ever put into a client's mailbox is its HELLO.
C7_HelloFirst == \A s \in Sessions : mailbox[s] # <<>> => mailbox[s][1] = Hello(s)

\* C8: a registered client that serves requests has its own CLIENT_JOINED in
\* its mailbox, after its HELLO.
C8_OwnJoinedAfterHello ==
    \A s \in Sessions :
        pc[s] = "serving" =>
            \E i, j \in DOMAIN mailbox[s] :
                /\ i < j
                /\ mailbox[s][i] = Hello(s)
                /\ mailbox[s][j] = ClientJoined(s, name[s])

\* C9 as claimed: the step that broadcasts CLIENT_LEFT runs with the leaver
\* out of Clients, enqueues nothing to the leaver, and enqueues the frame to
\* every client in Clients.
C9_LeftStepAll ==
    \A s \in Sessions :
        (pc[s] = "t_left" /\ pc'[s] = "done") =>
            /\ s \notin DOMAIN clients
            /\ mailbox'[s] = mailbox[s]
            /\ \A u \in DOMAIN clients :
                  mailbox'[u] = Append(mailbox[u], ClientLeft(s, name[s]))

\* C9 as claimed: every CLIENT_LEFT broadcast reaches every client in Clients.
C9_LeftToEveryClient == [][C9_LeftStepAll]_vars

\* C9 as amended: the step that broadcasts CLIENT_LEFT runs with the leaver out
\* of Clients, enqueues nothing to the leaver, and enqueues the frame exactly
\* to the clients in Clients whose own session has not ended; a client that
\* has itself disconnected and awaits its removal gets nothing.
C9_LeftStepOpen ==
    \A s \in Sessions :
        (pc[s] = "t_left" /\ pc'[s] = "done") =>
            /\ s \notin DOMAIN clients
            /\ mailbox'[s] = mailbox[s]
            /\ \A u \in Sessions \ {s} :
                  mailbox'[u] = IF u \in DOMAIN clients /\ rx_open(u)
                                THEN Append(mailbox[u], ClientLeft(s, name[s]))
                                ELSE mailbox[u]

\* C9 as amended: every CLIENT_LEFT broadcast reaches the clients still connected.
C9_LeftToConnectedClients == [][C9_LeftStepOpen]_vars

C9_Witness ==
    \E s, u \in Sessions :
        /\ pc[s] = "done" /\ name[s] # NoName
        /\ pc[u] = "serving"
        /\ ClientLeft(s, name[s]) \in Frames(mailbox[u])
        /\ mailbox[s] = <<>>

\* C10: the outcome of identification is decided by the first frame, the
\* checks applied in the order deadline, decoding, payload kind, secret,
\* version; only an IDENTIFY that passes them all goes on to registration.
InRequirement(v) == v # Unparsable /\ v[1] = 0 /\ v[2] = 2 /\ v[3] >= 0

ClosedWith(s, code) == pc'[s] = "closed" /\ closeCode'[s] = code

C10_IdentifyStep ==
    \A s \in Sessions :
        (pc[s] = "ident" /\ pc'[s] # "ident") =>
            LET f == first[s] IN
            IF f.kind = "none" THEN ClosedWith(s, AUTH_FAILED)
            ELSE IF f.kind = "garbage" THEN ClosedWith(s, FATAL_DECODE)
            ELSE IF f.kind = "other" THEN ClosedWith(s, NO_AUTH)
            ELSE IF f.secret # SECRET THEN ClosedWith(s, BAD_SECRET)
            ELSE IF ~InRequirement(f.version) THEN ClosedWith(s, BAD_VERSION)
            ELSE pc'[s] = "mc_lock" /\ name'[s] = f.name

\* C10: every identification step ends as its first frame prescribes.
C10_IdentificationOutcome == [][C10_IdentifyStep]_vars

\* C11 as claimed: no secret is configured (SECRET is None), so the secret
\* check is skipped and no IDENTIFY is closed with BAD_SECRET, whatever secret
\* it carries; were a secret configured, exactly the IDENTIFYs with a
\* different secret would be.
C11_SecretStep ==
    \A s \in Sessions :
        (pc[s] = "ident" /\ pc'[s] # "ident" /\ first[s].kind = "identify") =>
            IF SECRET = NoSecret
            THEN ~ClosedWith(s, BAD_SECRET)
            ELSE ClosedWith(s, BAD_SECRET) <=> first[s].secret # SECRET

\* C11: every identification step applies the secret check only when a secret is configured.
C11_SecretCheckSkipped == [][C11_SecretStep]_vars

\* C12: an identification that ends in a close code changes no table and no
\* mailbox in any of its steps, and the session it closes has left no trace:
\* no client, no name, no group, no frame to it and no CLIENT_JOINED about it.
CloseCodes == {AUTH_FAILED, FATAL_DECODE, NO_AUTH, BAD_SECRET, BAD_VERSION, DUPLICATE_AUTH}

C12_FailedStep ==
    \A s \in Sessions :
        (/\ pc[s] \in {"accepted", "ident", "mc_lock"}
         /\ pc'[s] \in {"ident", "mc_lock", "closed"}
         /\ pc'[s] # pc[s]) =>
            /\ namespace' = namespace
            /\ clients' = clients
            /\ groups' = groups
            /\ mailbox' = mailbox

C12_ClosedLeftNoTrace ==
    \A s \in Sessions :
        (pc[s] = "closed" /\ closeCode[s] \in CloseCodes) =>
            /\ s \notin DOMAIN clients
            /\ \A n \in DOMAIN namespace : namespace[n] # s
            /\ \A g \in DOMAIN groups : groups[g].owner # s /\ s \notin groups[g].clients
            /\ mailbox[s] = <<>>
            /\ \A c \in Sessions : \A i \in DOMAIN mailbox[c] : mailbox[c][i].uuid # s

\* C12: both parts, the closed sessions and the steps that lead to a close.
C12_FailedIdentification == []C12_ClosedLeftNoTrace /\ [][C12_FailedStep]_vars

\* The third connection asked for a name that is taken and was closed with
\* DUPLICATE_AUTH while alice and bob, their group and their mailboxes stayed
\* as they were, messages included.
C12_Witness ==
    /\ pc[3] = "closed" /\ closeCode[3] = DUPLICATE_AUTH
    /\ DOMAIN clients = {1, 2}
    /\ "chat" \in DOMAIN groups /\ groups["chat"].clients = {2}
    /\ \E i \in DOMAIN mailbox[2] : mailbox[2][i].type = "MESSAGE"
    /\ mailbox[3] = <<>>

\* C13: the registry guards are taken in the order Namespace, Clients,
\* Groups, so no two sessions ever wait for each other: there is no state in
\* which a registration holds the Namespace guard and waits for the Clients
\* guard while a request handler holds a Clients guard and waits for the
\* Namespace guard.
WaitsForClients(s) == pc[s] = "mc_insert" /\ nsWriter = s /\ clReaders # {}

WaitsForNamespace(s) == pc[s] = "rm_name" /\ s \in clReaders /\ nsWriter # NoUuid

C13_NoCircularWait ==
    ~\E s, t \in Sessions : s # t /\ WaitsForClients(s) /\ WaitsForNamespace(t)

\* The frame a step has put last into the mailbox of s.
LastFrame(s) == mailbox'[s][Len(mailbox'[s])]

\* C14: a GROUP_DELETE removes the group only for its owner; from any other
\* client it leaves Groups as it is and is answered with ERROR/UNAUTHORIZED,
\* and for a name not in Groups with ERROR/NO_SUCH_GROUP.
C14_DeleteStep ==
    \A s \in Sessions, g \in GroupNames :
        GroupDelete(s, g) =>
            IF ~contains_key(groups, g)
            THEN groups' = groups /\ LastFrame(s) = Error("NO_SUCH_GROUP", seq[s])
            ELSE IF groups[g].owner # s
            THEN groups' = groups /\ LastFrame(s) = Error("UNAUTHORIZED", seq[s])
            ELSE ~contains_key(groups', g) /\ LastFrame(s) = Status("DELETED_GROUP", seq[s], g)

\* C14: every GROUP_DELETE step ends as the requester's ownership prescribes.
C14_DeleteOnlyByOwner == [][C14_DeleteStep]_vars

\* C15: an UNSUBSCRIBE for an existing group of which the requester is not a
\* member is answered with STATUS/UNSUBSCRIBED and changes no table: not
\* Clients with the subscription sets, not Namespace, not Groups with the
\* member sets.
C15_UnsubscribeStep ==
    \A s \in Sessions, g \in GroupNames :
        (Unsubscribe(s, g) /\ contains_key(groups, g) /\ s \notin groups[g].clients) =>
            /\ LastFrame(s) = Status("UNSUBSCRIBED", seq[s], g)
            /\ clients' = clients
            /\ namespace' = namespace
            /\ groups' = groups

\* C15: every UNSUBSCRIBE of a non-member leaves the registry as it is.
C15_IdempotentUnsubscribe == [][C15_UnsubscribeStep]_vars

\* C16: a FETCH_SUBSCRIPTIONS is answered with the requester's subscription
\* set, no more and no less.
C16_FetchStep ==
    \A s \in Sessions :
        FetchSubscriptions(s) =>
            /\ LastFrame(s).type = "SUBSCRIPTIONS"
            /\ LastFrame(s).groups = clients[s].groups

\* C16: every FETCH_SUBSCRIPTIONS step replies with the requester's own subscriptions.
C16_OwnSubscriptions == [][C16_FetchStep]_vars

\* The step has appended exactly the frames fs to the mailbox of c.
Enqueued(c, fs) == mailbox'[c] = mailbox[c] \o fs

\* The frames a unicast step of s is to enqueue to c: the MESSAGE to the target
\* (NoUuid: there is none), then the reply to the sender.
UnicastFrames(c, s, target, d, miss) ==
    IF target = NoUuid
    THEN IF c = s THEN <<Error(miss, seq[s])>> ELSE <<>>
    ELSE (IF c = target THEN <<Message(s, name[s], NoGroup, d)>> ELSE <<>>)
         \o (IF c = s THEN <<Status("MESSAGE_SENT", seq[s], NoGroup)>> ELSE <<>>)

\* C17: a MESSAGE to UUID u, or to NAME n, puts one MESSAGE frame into the
\* mailbox of the client registered under u, or n, and into no other, and
\* MESSAGE_SENT into the sender's; with no such client nobody gets a MESSAGE
\* and the sender gets NO_SUCH_UUID, or NO_SUCH_NAME.
C17_UnicastStep ==
    \A s \in Sessions :
        /\ \A u \in Sessions, d \in DataValues :
              MessageUuid(s, u, d) =>
                  \A c \in Sessions :
                      Enqueued(c, UnicastFrames(c, s,
                                    IF contains_key(clients, u) THEN u ELSE NoUuid,
                                    d, "NO_SUCH_UUID"))
        /\ MessageNameFinish(s) =>
              LET n == pending[s][1]
                  d == pending[s][2]
                  target == IF contains_key(namespace, n) /\ contains_key(clients, namespace[n])
                            THEN namespace[n] ELSE NoUuid
              IN \A c \in Sessions : Enqueued(c, UnicastFrames(c, s, target, d, "NO_SUCH_NAME"))

\* C17: every unicast step delivers to its target alone and replies to the sender.
C17_UnicastRouting == [][C17_UnicastStep]_vars

\* The reply to the sender of a group MESSAGE, for the sender's own mailbox.
GroupReply(c, s) == IF c = s THEN <<Status("MESSAGE_SENT", seq[s], NoGroup)>> ELSE <<>>

\* C18 as claimed: a MESSAGE to an existing GROUP g is enqueued once to every
\* member of g that is in Clients and to nobody else, a member without a
\* client is passed over, and the sender gets MESSAGE_SENT; for an absent
\* group nobody gets a MESSAGE and the sender gets NO_SUCH_GROUP.
C18_GroupStepAll ==
    \A s \in Sessions, g \in GroupNames, d \in DataValues :
        MessageGroup(s, g, d) =>
            \A c \in Sessions :
                IF ~contains_key(groups, g)
                THEN Enqueued(c, IF c = s THEN <<Error("NO_SUCH_GROUP", seq[s])>> ELSE <<>>)
                ELSE Enqueued(c, (IF c \in groups[g].clients /\ contains_key(clients, c)
                                  THEN <<Message(s, name[s], g, d)>> ELSE <<>>)
                                 \o GroupReply(c, s))

\* C18 as claimed: every group MESSAGE step reaches every member that is in Clients.
C18_GroupToEveryMember == [][C18_GroupStepAll]_vars

\* C18 as amended: a MESSAGE to an existing GROUP g is enqueued once to every
\* member of g that is in Clients and whose own session has not ended, and
\* to nobody else; a member without a client, or with a client whose
\* connection is gone, is passed over; the sender gets MESSAGE_SENT.  For an
\* absent group nobody gets a MESSAGE and the sender gets NO_SUCH_GROUP.
C18_GroupStepOpen ==
    \A s \in Sessions, g \in GroupNames, d \in DataValues :
        MessageGroup(s, g, d) =>
            \A c \in Sessions :
                IF ~contains_key(groups, g)
                THEN Enqueued(c, IF c = s THEN <<Error("NO_SUCH_GROUP", seq[s])>> ELSE <<>>)
                ELSE Enqueued(c, (IF c \in groups[g].clients /\ contains_key(clients, c)
                                     /\ rx_open(c)
                                  THEN <<Message(s, name[s], g, d)>> ELSE <<>>)
                                 \o GroupReply(c, s))

\* C18 as amended: every group MESSAGE step reaches the members still connected.
C18_GroupToConnectedMembers == [][C18_GroupStepOpen]_vars

\* alice subscribed to her own group and sent a MESSAGE to it: bob and alice
\* herself both hold it, alice with her MESSAGE_SENT right behind it.
C18_Witness ==
    /\ groups = [g \in {"chat"} |-> [owner |-> 1, clients |-> {1, 2}]]
    /\ \E i \in DOMAIN mailbox[2] : mailbox[2][i] = Message(1, "alice", "chat", "d1")
    /\ \E i \in DOMAIN mailbox[1] :
          /\ mailbox[1][i] = Message(1, "alice", "chat", "d1")
          /\ i < Len(mailbox[1])
          /\ mailbox[1][i + 1] = Status("MESSAGE_SENT", 2, NoGroup)

\* The frames a step has appended to the mailbox of c.
NewFrames(c) ==
    IF Len(mailbox'[c]) > Len(mailbox[c])
    THEN {mailbox'[c][i] : i \in (Len(mailbox[c]) + 1)..Len(mailbox'[c])}
    ELSE {}

\* C19: every MESSAGE frame in a mailbox carries as origin the uuid of a
\* session and the name that session registered with.
C19_StampedFrames ==
    \A c \in Sessions : \A i \in DOMAIN mailbox[c] :
        mailbox[c][i].type = "MESSAGE" =>
            /\ mailbox[c][i].uuid \in Sessions
            /\ mailbox[c][i].name = name[mailbox[c][i].uuid]
            /\ mailbox[c][i].name \in Names

\* C19: a MESSAGE frame is enqueued only by the step that serves a MESSAGE
\* request; its origin is the uuid of the requesting session and the name
\* the registry holds for it, and it carries the group name when the target
\* was that GROUP and no group when the target was a UUID, a NAME or ALL.
C19_OriginStep ==
    \A c \in Sessions : \A f \in NewFrames(c) :
        f.type = "MESSAGE" =>
            \E s \in Sessions :
                /\ seq'[s] = seq[s] + 1
                /\ f.uuid = s
                /\ f.name = clients[s].name
                /\ f.group # NoGroup => \E d \in DataValues : MessageGroup(s, f.group, d)
                /\ f.group = NoGroup =>
                      \/ \E d \in DataValues : MessageAll(s, d)
                      \/ \E u \in Sessions, d \in DataValues : MessageUuid(s, u, d)
                      \/ MessageNameFinish(s)

\* C19: both parts, the frames in the mailboxes and the steps that enqueue them.
C19_OriginStamped == []C19_StampedFrames /\ [][C19_OriginStep]_vars

\* bob holds a MESSAGE alice sent to the group, with the group in its
\* origin, and alice holds a MESSAGE bob sent to her alone, without one.
C19_Witness ==
    /\ \E i \in DOMAIN mailbox[2] : mailbox[2][i] = Message(1, "alice", "chat", "d1")
    /\ \E i \in DOMAIN mailbox[1] : mailbox[1][i] = Message(2, "bob", NoGroup, "d1")

\* C20: what a client's dispatcher has written to the socket is, frame by
\* frame, the beginning of what was enqueued into its mailbox: in enqueue
\* order, nothing left out in between, nothing twice.
C20_SocketIsPrefix ==
    \A s \in Sessions :
        /\ Len(outgoing[s]) <= Len(mailbox[s])
        /\ \A i \in DOMAIN outgoing[s] : outgoing[s][i] = mailbox[s][i]

\* C20: the socket's sequence changes only by one frame written behind the
\* frames written before, the oldest enqueued frame not yet written, or by
\* the end of the session.
C20_WriteStep ==
    \A s \in Sessions :
        outgoing'[s] # outgoing[s] =>
            \/ /\ Len(outgoing[s]) < Len(mailbox[s])
               /\ outgoing'[s] = Append(outgoing[s], mailbox[s][Len(outgoing[s]) + 1])
               /\ mailbox' = mailbox
            \/ pc'[s] = "t_remove" /\ outgoing'[s] = <<>>

\* C20: both parts, the socket against the mailbox and the steps of the dispatcher.
C20_PerRecipientFifo == []C20_SocketIsPrefix /\ [][C20_WriteStep]_vars

\* alice's socket has seen bob's MESSAGE before her own MESSAGE_SENT, as they
\* were enqueued by the two producers, and more frames wait in her mailbox.
C20_Witness ==
    /\ Len(outgoing[1]) < Len(mailbox[1])
    /\ \E i, j \in DOMAIN outgoing[1] :
          /\ i < j
          /\ outgoing[1][i] = Message(2, "bob", NoGroup, "d1")
          /\ outgoing[1][j].type = "MESSAGE_SENT"

\* C21: the step that serves a request of s (it ends with `seq += 1`) has put
\* a reply last into the mailbox of s, and the reply carries the seq the
\* request had: its position in the inbound stream of s.
C21_ReplyStep ==
    \A s \in Sessions :
        seq'[s] = seq[s] + 1 =>
            /\ Len(mailbox'[s]) > Len(mailbox[s])
            /\ LastFrame(s).seq = seq[s]

\* C21: every reply echoes the seq of its request.
C21_SeqEcho == [][C21_ReplyStep]_vars

\* C22: a cleanup run for a uuid that is not in Clients ends with the error
\* and changes no table, no member set, no mailbox and no file.
C22_SecondStep ==
    \A s \in Sessions :
        (pc[s] = "t_remove" /\ ~contains_key(clients, s) /\ pc'[s] # pc[s]) =>
            /\ pc'[s] = "t_err"
            /\ clients' = clients
            /\ namespace' = namespace
            /\ groups' = groups
            /\ mailbox' = mailbox
            /\ files' = files

\* C22: a session whose cleanup has ended in the error is in no table, and a
\* client that took over its name is still registered under it.
C22_AfterError ==
    \A s \in Sessions :
        pc[s] = "t_err" =>
            /\ ~contains_key(clients, s)
            /\ \A n \in DOMAIN namespace : namespace[n] # s
            /\ \A t \in Sessions \ {s} :
                  (pc[t] = "serving" /\ name[t] = name[s]) =>
                      contains_key(clients, t) /\ namespace[name[t]] = t

C23_FileStep ==
    \A auth \in Sessions, nm \in Names, tail \in Tails :
        /\ FileGet(auth, nm, tail) =>
              /\ ~contains_key(clients, auth) <=> response'.result = BadAuthorization
              /\ response'.result # Forbidden
        /\ (FilePut(auth, nm, tail) \/ FileDelete(auth, nm, tail)) =>
              /\ ~contains_key(clients, auth) <=> response'.result = BadAuthorization
              /\ (contains_key(clients, auth) /\ clients[auth].name # nm)
                    <=> response'.result = Forbidden
              /\ response'.result \in {BadAuthorization, Forbidden} => files' = files

\* C23: a file exists only below the name of a client that is, or was,
\* registered: nobody writes into the tree of a name they do not hold.
C23_FilesOfOwners ==
    \A p \in Paths : files[p] # NoEntry => \E s \in Sessions : name[s] = p[1]

\* C23: both parts, every request's step and the owners of the files.
C23_FileAuthorization == []C23_FilesOfOwners /\ [][C23_FileStep]_vars

\* bob's key was refused after his deregistration, while a file that alice
\* put is still there.
C23_Witness ==
    /\ ~contains_key(clients, 2)
    /\ response.auth = 2 /\ response.result = BadAuthorization
    /\ files[<<"alice", "d/f">>] = IsFile


\* C24: a GET with a registered key returns the file exactly when the path is
\* an existing regular file; it fails with NotAFile for a directory and with
\* FileNotFound for a path that does not exist.
C24_GetStep ==
    \A auth \in Sessions, nm \in Names, tail \in Tails :
        (FileGet(auth, nm, tail) /\ contains_key(clients, auth)) =>
            /\ files[<<nm, tail>>] = IsFile  => response'.result = ACCEPTED
            /\ files[<<nm, tail>>] = IsDir   => response'.result = NotAFile
            /\ files[<<nm, tail>>] = NoEntry => response'.result = FileNotFound

C24_GetRegularFile == [][C24_GetStep]_vars


\* C25: the seq counter counts the successfully parsed frames: a frame that
\* fails to parse leaves it as it is, is answered with ERROR/PROTOCOL carrying
\* the current seq, leaves the session serving and the registry unchanged;
\* every other frame that is served adds one.
C25_ParseStep ==
    \A s \in Sessions :
        /\ Malformed(s) =>
              /\ seq'[s] = seq[s]
              /\ LastFrame(s) = Error("PROTOCOL", seq[s])
              /\ pc'[s] = "serving"
              /\ clients' = clients /\ groups' = groups
              /\ namespace' = namespace
        /\ seq'[s] # seq[s] => seq'[s] = seq[s] + 1 /\ ~Malformed(s)

C25_SeqCountsParsedFrames == [][C25_ParseStep]_vars


\* The cleanup of session s has run to its end.
TornDown(s) ==
    /\ pc[s] = "done"
    /\ ~contains_key(clients, s)
    /\ \A g \in DOMAIN groups : s \notin groups[g].clients
    /\ \A n \in DOMAIN namespace : namespace[n] # s

\* C26: a registered session whose reader or dispatcher has completed
\* eventually finishes its teardown: its uuid is then in no table and its
\* name is free for the next client.
C26_TeardownLiveness ==
    \A s \in Sessions : (pc[s] = "t_remove") ~> TornDown(s)


\* The client registered under u is still in Clients while the receiver of
\* its mailbox is gone: its session has ended and its teardown has not run.
DeadTarget(u) == contains_key(clients, u) /\ ~rx_open(u)

\* C27: a MESSAGE to the UUID or the NAME of a client that is still in
\* Clients while its mailbox has no consumer any more leaves the sender's
\* session serving.
C27_DeadTargetStep ==
    \A s \in Sessions :
        /\ \A u \in Sessions, d \in DataValues :
              (MessageUuid(s, u, d) /\ DeadTarget(u)) => pc'[s] = "serving"
        /\ (/\ MessageNameFinish(s)
            /\ contains_key(namespace, pending[s][1])
            /\ DeadTarget(namespace[pending[s][1]])) => pc'[s] = "serving"

C27_SenderSurvivesDeadTarget == [][C27_DeadTargetStep]_vars


\* C28: an UNSUBSCRIBED for group g enters the mailbox of client c only as
\* the reply to c's own UNSUBSCRIBE of g or in the step that deletes g; and
\* the cleanup of a disconnected client's groups leaves every group of
\* another owner with its members.
C28_UnsubscribedStep ==
    /\ \A c \in Sessions, g \in GroupNames :
          (\E f \in NewFrames(c) : f.type = "UNSUBSCRIBED" /\ f.group = g) =>
              \/ Unsubscribe(c, g)
              \/ contains_key(groups, g) /\ ~contains_key(groups', g)
    /\ \A s \in Sessions :
          TeardownReap(s) =>
              \A g \in DOMAIN groups :
                  groups[g].owner # s =>
                      contains_key(groups', g) /\ groups'[g] = groups[g]

C28_UnsubscribedOnlyWhenDue == [][C28_UnsubscribedStep]_vars


\* C29: every group name in the subscription set of a client in Clients is
\* the name of a group in Groups.
C29_SubscriptionsAreGroups ==
    \A u \in DOMAIN clients : clients[u].groups \subseteq DOMAIN groups


\* A frame that answers a request of s directly: a fetch result, or a STATUS
\* or ERROR carrying the seq of the request.  Notifications and MESSAGEs that
\* the same request fans out carry no seq.
FetchResults == {"GROUPS", "SUBSCRIPTIONS", "CLIENTS", "GROUP_SUBSCRIBERS"}
DirectReply(f, s) ==
    \/ f.type \in FetchResults
    \/ f.type # "MESSAGE" /\ f.seq = seq[s]

\* The positions of the frames that this step appends to the mailbox of s.
NewPositions(s) ==
    IF Len(mailbox'[s]) > Len(mailbox[s])
    THEN (Len(mailbox[s]) + 1)..Len(mailbox'[s])
    ELSE {}

\* C30: the step that serves a parsed request of s puts exactly one direct
\* reply into the mailbox of s, whatever the payload kind and the outcome.
C30_RequestStep ==
    \A s \in Sessions :
        (seq'[s] = seq[s] + 1 /\ ~Malformed(s)) =>
            Cardinality({i \in NewPositions(s) : DirectReply(mailbox'[s][i], s)}) = 1

C30_OneReplyPerRequest == [][C30_RequestStep]_vars

====
